---- MODULE Spec2Model ----
(***************************************************************************)
(* Cryptify: the hourly feature collector (scripts/data_collector.py) and  *)
(* the multi-horizon predictor with its retention sweeper                  *)
(* (scripts/predictor.py, scripts/cleanup_predictions.py).                 *)
(*                                                                         *)
(* Time is counted in whole hours (every timestamp of the program is       *)
(* hour-aligned).  The exchange serves one bar per hour from ExchangeStart *)
(* up to the current hour.  A feature row is [timestamp, start, batch]:    *)
(* start is the first bar of the frame the row was computed from (the      *)
(* recursive indicators MACD/RSI/ATR depend on where the frame starts),    *)
(* batch numbers the write that inserted the row (the table has no primary *)
(* key, so it is a bag of rows).                                           *)
(***************************************************************************)
EXTENDS Integers, Sequences, FiniteSets, TLC

VARIABLES
    now,          \* current hour (datetime.utcnow() truncated to the hour)
    ticks,        \* hours/jumps elapsed so far (bounds the exploration)
    faults,       \* TRUE when a source or database call of a collector run may fail
    features,     \* table btc_features_1h: set of rows
    hasIndex,     \* unique index idx_timestamp exists on the table
    nWrites,      \* number of writes to the feature table so far
    lastRun,      \* outcome of the latest collector run (observation)
    prevRun,      \* outcome of the run before it (observation)
    sessionTZ,    \* time zone (hours east of UTC) of the database session
    predictions,  \* table predictions: set of rows
    run,          \* per process: position and locals of run_prediction
    procs,        \* predictor processes of this behaviour
    lastSaved,    \* the latest save_prediction call (observation)
    lastSweep,    \* the latest retention sweep (observation)
    mainPc,       \* position of the collector script's entry point
    interleaved,  \* TRUE when jobs may overlap, FALSE when they run in sequence
    fetch,        \* position and locals of the request loop that is running
    service,      \* MLScriptService: its two dicts, the subprocesses, the calls
    calc,         \* one call of create_advanced_features: its frame and its output
    jobs          \* per overlapping incremental run: its position and locals

vars == <<now, ticks, faults, features, hasIndex, nWrites, lastRun, prevRun,
          sessionTZ, predictions, run, procs, lastSaved, lastSweep, mainPc,
          interleaved, fetch, service, calc, jobs>>

collectorVars == <<features, hasIndex, nWrites, lastRun, prevRun, mainPc>>
predictorVars == <<sessionTZ, predictions, run, procs, lastSaved, lastSweep>>

(***************************************************************************)
(* Bounds of the exploration                                               *)
(***************************************************************************)
ExchangeStart == 0          \* timestamp of the first bar the exchange has
MaxTicks == 3               \* clock advances explored per behaviour
MaxWrites == 4              \* writes to the feature table per behaviour
GapJump == 110              \* a long pause between two runs, in hours

InitNows == {97, 98, 99, 210}   \* hours at which a behaviour may start
TickSteps == {1, GapJump}
FaultNows == {98, 210}      \* hours at which a behaviour with faults may start
PartialBars == {50, 1000}   \* bars fetched before a later request fails
StepsNow == 146             \* hour of the rebuild that runs next to a prediction

(***************************************************************************)
(* Program constants of data_collector.py                                  *)
(***************************************************************************)
BARS_TO_FETCH_FOR_UPDATE == 200
FETCH_MARGIN == 5
YEARS_TO_FETCH == 2
ZSCORE_WINDOW == 100

OHLCV_LIMIT == 1000          \* bars per fetch_ohlcv request
OI_LIMIT == 200              \* records per open-interest request
DB_CONNECT_ATTEMPTS == 5     \* attempts of get_db_engine

HistoryHours == 364 * 24 * YEARS_TO_FETCH

SetMax(S) == CHOOSE x \in S : \A y \in S : y <= x
Larger(a, b) == IF a > b THEN a ELSE b
Smaller(a, b) == IF a < b THEN a ELSE b

\* An optional value is the empty set (None) or a singleton.
None == {}
Some(x) == {x}
TheValue(o) == CHOOSE x \in o : TRUE

(***************************************************************************)
(* Frames and tables.  Every frame of the program holds consecutive hourly *)
(* rows, so a frame is written as its first and last timestamp [lo, hi]    *)
(* (empty when lo > hi).  A block [lo, hi, start, batch] stands for the    *)
(* rows of one write: one row per hour lo..hi, all computed from a frame   *)
(* that starts at `start`.  The feature table is a set of blocks.          *)
(***************************************************************************)
IsEmpty(f) == f.lo > f.hi
Size(f) == IF IsEmpty(f) THEN 0 ELSE f.hi - f.lo + 1
EmptyFrame == [lo |-> 1, hi |-> 0]

\* The rows of a table, one record per row.
RowsOf(table) ==
    UNION {{[timestamp |-> t, start |-> b.start, batch |-> b.batch] : t \in b.lo..b.hi}
             : b \in table}

Timestamps(table) == UNION {b.lo..b.hi : b \in table}

RECURSIVE RowCount(_)
RowCount(table) ==
    IF table = {} THEN 0
    ELSE LET b == CHOOSE x \in table : TRUE
         IN  Size(b) + RowCount(table \ {b})

Overlap(a, b) == a.lo <= b.hi /\ b.lo <= a.hi

(***************************************************************************)
(* Database functions                                                      *)
(***************************************************************************)
\* Variant: the query result is never used (the table always looks empty).
get_last_timestamp_Never(table, queryOk) == None

\* get_last_timestamp: MAX(timestamp), None for an empty or missing table
\* and None when the query raises.
get_last_timestamp(table, queryOk) ==
    IF queryOk /\ table # {} THEN Some(SetMax({b.hi : b \in table})) ELSE None

\* Variant: if_exists='replace' on the incremental path.
ToSqlAppend_Replace(table, new, indexed, batch) ==
    {[lo |-> new.lo, hi |-> new.hi, start |-> new.start, batch |-> batch]}

\* Variant: the insert is not checked against the rows that are stored.
ToSqlAppend_Unchecked(table, new, indexed, batch) ==
    table \cup {[lo |-> new.lo, hi |-> new.hi, start |-> new.start, batch |-> batch]}

\* DataFrame.to_sql(if_exists='append'): one INSERT transaction.  With the
\* unique index in place a duplicate timestamp aborts the whole insert.
ToSqlAppend(table, new, indexed, batch) ==
    IF indexed /\ \E b \in table : Overlap(b, new)
    THEN table
    ELSE table \cup {[lo |-> new.lo, hi |-> new.hi, start |-> new.start, batch |-> batch]}

\* save_features_to_db: nothing for an empty frame, else append; a database
\* error is printed and swallowed.
save_features_to_db(table, new, indexed, batch, dbOk) ==
    IF IsEmpty(new) \/ ~dbOk THEN table ELSE ToSqlAppend(table, new, indexed, batch)

(***************************************************************************)
(* Source adapters, merge and feature transform                            *)
(***************************************************************************)
\* Variant: a request that fails is repeated inside the adapter until the
\* exchange answers.
fetch_ohlcv_data_Retry(since, newest, ok, cut) ==
    [lo |-> Larger(since, ExchangeStart), hi |-> newest]

\* fetch_ohlcv_data: the bars from `since` to the newest one, page by page.
\* An error before the first page leaves the list empty; an error on a
\* later request ends the loop and the pages fetched so far are returned
\* (`cut` bars, 0 when no request fails).
fetch_ohlcv_data(since, newest, ok, cut) ==
    LET first == Larger(since, ExchangeStart)
    IN  IF ~ok THEN EmptyFrame
        ELSE IF cut > 0 THEN [lo |-> first, hi |-> Smaller(newest, first + cut - 1)]
        ELSE [lo |-> first, hi |-> newest]

\* merge_all_data: None without OHLCV rows, else the OHLCV axis with the
\* auxiliary columns that were delivered.
merge_all_data(ohlcv, oiOk, spOk) ==
    IF IsEmpty(ohlcv) THEN None
    ELSE Some([bars |-> ohlcv, oi |-> oiOk, sp500 |-> spOk])

\* create_advanced_features: raises KeyError when the frame has no
\* SP500_Close column; else one row per bar that has ZSCORE_WINDOW bars up
\* to and including itself (rolling(100) leaves the first 99 rows NaN and
\* dropna removes them).
FeaturesRaise(frame) == ~frame.sp500

create_advanced_features(frame) ==
    [lo |-> frame.bars.lo + (ZSCORE_WINDOW - 1), hi |-> frame.bars.hi,
     start |-> frame.bars.lo]

(***************************************************************************)
(* MLScriptService, the backend's runner of the scripts.  Its coroutines   *)
(* run on one event loop: a step is the code between two awaits.  The      *)
(* subprocess a run_script call starts is named by the call.               *)
(***************************************************************************)
Scripts == {"data_collector.py", "predictor.py"}
Calls == {"c1", "c2", "c3"}
NoProcess == "none"

\* `killed` records that the call's kill() hit a process that was running.
NoCall == [op |-> "none", script |-> "none", pc |-> "idle", process |-> NoProcess,
           result |-> "none", killed |-> FALSE]
NoSubprocess == [st |-> "unborn", returncode |-> 0]

\* __init__: no process registered, no status recorded.
NewService ==
    [running_processes |-> [n \in Scripts |-> NoProcess],
     script_status |-> [n \in Scripts |-> "none"],
     process |-> [c \in Calls |-> NoSubprocess],
     call |-> [c \in Calls |-> NoCall]]

is_running(svc, script_name) == svc.running_processes[script_name] # NoProcess

\* process.kill(): SIGKILL ends a process that is still running.
Kill(svc, process) ==
    IF svc.process[process].st = "alive"
    THEN [svc EXCEPT !.process[process] = [st |-> "exited", returncode |-> -9]]
    ELSE svc

\* run_script up to its first await: validation, the check of
\* running_processes, the status 'running'.
run_script_check(svc, c, script_name, valid) ==
    LET called == [svc EXCEPT !.call[c] = [NoCall EXCEPT !.op = "run_script",
                                                         !.script = script_name]]
    IN  IF ~valid
        THEN [called EXCEPT !.call[c].pc = "returned", !.call[c].result = "failed"]
        ELSE IF is_running(svc, script_name)
        THEN [called EXCEPT !.call[c].pc = "returned", !.call[c].result = "running"]
        ELSE [called EXCEPT !.script_status[script_name] = "running",
                            !.call[c].pc = "spawn"]

\* run_script after `await asyncio.create_subprocess_exec`: the process is
\* registered under the script's name; a failed start goes to the outer
\* except.
run_script_register(svc, c, started) ==
    LET script_name == svc.call[c].script
    IN  IF started
        THEN [svc EXCEPT !.process[c] = [st |-> "alive", returncode |-> 0],
                         !.running_processes[script_name] = c,
                         !.call[c].process = c,
                         !.call[c].pc = "communicate"]
        ELSE [svc EXCEPT !.script_status[script_name] = "failed",
                         !.running_processes[script_name] = NoProcess,
                         !.call[c].pc = "returned",
                         !.call[c].result = "failed"]

\* asyncio.TimeoutError from wait_for: the process is killed and awaited.
run_script_timeout(svc, c) ==
    [Kill(svc, c) EXCEPT !.call[c].pc = "timed_out"]

\* run_script after communicate() or after the wait of the timeout branch:
\* the status is updated, the finally clause removes whatever is registered
\* under the name, the result is returned.
run_script_result(svc, c) ==
    LET script_name == svc.call[c].script
        status == IF svc.call[c].pc = "communicate" /\ svc.process[c].returncode = 0
                  THEN "completed" ELSE "failed"
    IN  [svc EXCEPT !.script_status[script_name] = status,
                    !.running_processes[script_name] = NoProcess,
                    !.call[c].pc = "returned",
                    !.call[c].result = status]

\* cancel_script after `await process.wait()`: status 'cancelled', then
\* del running_processes[script_name], a KeyError when the entry is gone.
cancel_script_result(svc, c) ==
    LET script_name == svc.call[c].script
    IN  [svc EXCEPT !.script_status[script_name] = "cancelled",
                    !.running_processes[script_name] = NoProcess,
                    !.call[c].pc = "returned",
                    !.call[c].result = IF is_running(svc, script_name)
                                       THEN "success" ELSE "error"]

\* cancel_script up to its await: the registered process is killed.  For a
\* process that has ended already kill() either raises ProcessLookupError
\* or does nothing, and then wait() returns at once.
cancel_script_kill(svc, c, script_name, lookupError) ==
    LET called == [svc EXCEPT !.call[c] = [NoCall EXCEPT !.op = "cancel_script",
                                                         !.script = script_name]]
        process == svc.running_processes[script_name]
    IN  IF ~is_running(svc, script_name)
        THEN [called EXCEPT !.call[c].pc = "returned", !.call[c].result = "error"]
        ELSE IF svc.process[process].st = "exited"
        THEN IF lookupError
             THEN [called EXCEPT !.call[c].pc = "returned", !.call[c].result = "error"]
             ELSE cancel_script_result([called EXCEPT !.call[c].process = process], c)
        ELSE [Kill(called, process) EXCEPT !.call[c].process = process,
                                           !.call[c].killed = TRUE,
                                           !.call[c].pc = "wait"]

(***************************************************************************)
(* The request loops of the adapters and of get_db_engine, one request per *)
(* step.  `sent` is the number of requests sent so far, modulo 2.          *)
(***************************************************************************)
NoFetch == [adapter |-> "none", pc |-> "idle", start |-> 0, since |-> 0, bars |-> 0,
            cursor |-> 0, previous |-> 0, oldest |-> 0, any |-> FALSE,
            attempt |-> 0, sent |-> 0]

Adapters == {"ohlcv", "oi", "db"}
Cursors == {0, 1, 2}         \* nextPageCursor values, 0 for none
OhlcvResponses == {"answer", "ddos", "fail"}
OiResponses == {"page", "stale_page", "empty", "fail"}

\* The state of a loop before its first request.
BeginFetch(adapter, start, t) ==
    [NoFetch EXCEPT !.adapter = adapter, !.pc = "request", !.start = start,
                    !.since = start, !.oldest = t + 1,
                    !.attempt = IF adapter = "db" THEN 1 ELSE 0]

\* One pass of the while loop of fetch_ohlcv_data: the exchange answers with
\* the next page (none when `since` is past the newest bar), with
\* DDoSProtection, or with another error.
OhlcvPass(f, newest, response) ==
    LET first == Larger(f.since, ExchangeStart)
        last  == Smaller(newest, first + OHLCV_LIMIT - 1)
        next  == [f EXCEPT !.sent = (@ + 1) % 2]
    IN  CASE response = "ddos" -> next
          [] response = "fail" -> [next EXCEPT !.pc = "done"]
          [] OTHER ->
               IF first > newest THEN [next EXCEPT !.pc = "done"]
               ELSE [next EXCEPT !.bars = @ + (last - first + 1), !.since = last + 1]

\* One pass of the while loop of fetch_open_interest_data.  The records of
\* a page end OI_LIMIT hours before those of the page before it, unless the
\* server sends the same records again (a stale page).
OiPass(f, response, nextPageCursor) ==
    LET next   == [f EXCEPT !.sent = (@ + 1) % 2]
        oldest == IF response = "stale_page" /\ f.any THEN f.oldest
                  ELSE f.oldest - OI_LIMIT
        paged  == [next EXCEPT !.previous = f.cursor, !.cursor = nextPageCursor]
    IN  IF response \in {"empty", "fail"} THEN [next EXCEPT !.pc = "done"]
        ELSE IF nextPageCursor = f.cursor /\ f.any THEN [paged EXCEPT !.pc = "done"]
        ELSE IF oldest < f.start \/ nextPageCursor = 0
        THEN [paged EXCEPT !.oldest = oldest, !.any = TRUE, !.pc = "done"]
        ELSE [paged EXCEPT !.oldest = oldest, !.any = TRUE]

\* One pass of the for loop of get_db_engine.
DbPass(f, connected) ==
    LET next == [f EXCEPT !.sent = (@ + 1) % 2]
    IN  IF connected \/ f.attempt = DB_CONNECT_ATTEMPTS THEN [next EXCEPT !.pc = "done"]
        ELSE [next EXCEPT !.attempt = @ + 1]

(***************************************************************************)
(* The environment of one collector run: which sources deliver and whether *)
(* the database answers.  Without faults everything succeeds.              *)
(***************************************************************************)
AllDelivered ==
    [ohlcv |-> TRUE, cut |-> 0, oi |-> TRUE, sp500 |-> TRUE, query |-> TRUE, db |-> TRUE]

NoFault(env) == env = AllDelivered

\* The environments in which one call of a collection fails.
FaultCases ==
    { [AllDelivered EXCEPT !.ohlcv = FALSE],
      [AllDelivered EXCEPT !.oi = FALSE],
      [AllDelivered EXCEPT !.sp500 = FALSE],
      [AllDelivered EXCEPT !.query = FALSE],
      [AllDelivered EXCEPT !.db = FALSE] }
    \cup {[AllDelivered EXCEPT !.cut = k] : k \in PartialBars}

Envs(f) == IF f THEN {AllDelivered} \cup FaultCases ELSE {AllDelivered}

\* The environment of the second collection of a run: there is one only
\* when no last timestamp was read (the run switches to run_batch_history).
SecondEnvs(table, env, f) ==
    IF get_last_timestamp(table, env.query) = None THEN Envs(f) ELSE {AllDelivered}

\* What the source adapters print about a fetch.
FetchReport(env) ==
    (IF ~env.ohlcv \/ env.cut > 0 THEN {"ohlcv_error"} ELSE {})
    \cup (IF env.oi THEN {} ELSE {"oi_error"})
    \cup (IF env.sp500 THEN {} ELSE {"sp500_error"})

\* What a run leaves behind: the table, the index, the write counter, the
\* kind of write it made and the messages it printed.
Outcome(rows, idx, nw, write, report) ==
    [features |-> rows, hasIndex |-> idx, nWrites |-> nw, write |-> write,
     report |-> report]

(***************************************************************************)
(* run_batch_history: fetch YEARS_TO_FETCH of history, transform, replace  *)
(* the table and create the unique index.                                  *)
(***************************************************************************)
\* DataFrame.to_sql(if_exists='replace'): the table is dropped and created
\* again with the rows of the frame, none for an empty frame.
ToSqlReplace(new, batch) ==
    IF IsEmpty(new) THEN {}
    ELSE {[lo |-> new.lo, hi |-> new.hi, start |-> new.start, batch |-> batch]}

\* Feature engineering and save of run_batch_history: one try block, any
\* exception is printed.
BatchReplace(rows, idx, nw, frame, env) ==
    IF FeaturesRaise(frame) \/ ~env.db
    THEN Outcome(rows, idx, nw, "none", FetchReport(env) \cup {"batch_error"})
    ELSE Outcome(ToSqlReplace(create_advanced_features(frame), nw + 1),
                 TRUE, nw + 1, "replace", FetchReport(env) \cup {"batch_saved"})

run_batch_history(rows, idx, nw, t, env) ==
    LET start_date == t - HistoryHours
        ohlcv_data == fetch_ohlcv_data(start_date, t, env.ohlcv, env.cut)
        df_raw     == merge_all_data(ohlcv_data, env.oi, env.sp500)
    IN  IF df_raw = None
        THEN Outcome(rows, idx, nw, "none", FetchReport(env) \cup {"merge_empty"})
        ELSE BatchReplace(rows, idx, nw, TheValue(df_raw), env)

(***************************************************************************)
(* run_incremental_update                                                  *)
(***************************************************************************)
\* Variant: the fetch always starts 205 hours before the current hour.
FetchStart_DefaultOnly(last_timestamp, end_date) ==
    end_date - (BARS_TO_FETCH_FOR_UPDATE + FETCH_MARGIN)

\* The fetch start: 205 hours before the current hour, or 200 hours before
\* the last stored timestamp when that is later.
FetchStart(last_timestamp, end_date) ==
    LET start_date_fetch == end_date - (BARS_TO_FETCH_FOR_UPDATE + FETCH_MARGIN)
    IN  IF last_timestamp # None
           /\ TheValue(last_timestamp) - BARS_TO_FETCH_FOR_UPDATE > start_date_fetch
        THEN TheValue(last_timestamp) - BARS_TO_FETCH_FOR_UPDATE
        ELSE start_date_fetch

\* Variant: the filter keeps the row of the last stored timestamp (>=).
NewFeaturesToAppend_Inclusive(df_features_new, last_timestamp) ==
    [df_features_new EXCEPT !.lo = Larger(@, TheValue(last_timestamp))]

\* The rows the incremental path appends: strictly newer than the last
\* stored timestamp.
NewFeaturesToAppend(df_features_new, last_timestamp) ==
    [df_features_new EXCEPT !.lo = Larger(@, TheValue(last_timestamp) + 1)]

\* Step 3 of run_incremental_update.  save_features_to_db swallows a write
\* error, so the success message follows it in either case.  Without a last
\* timestamp the run switches to run_batch_history, which fetches again
\* (env2 is the environment of that second collection).
IncrementalSave(rows, idx, nw, t, env, env2, last_timestamp, df_features_new) ==
    IF last_timestamp # None
    THEN LET new   == NewFeaturesToAppend(df_features_new, last_timestamp)
             after == save_features_to_db(rows, new, idx, nw + 1, env.db)
         IN  IF IsEmpty(new)
             THEN Outcome(rows, idx, nw, "none", FetchReport(env) \cup {"up_to_date"})
             ELSE IF after = rows
             THEN Outcome(rows, idx, nw, "none",
                          FetchReport(env) \cup {"write_error", "updated"})
             ELSE Outcome(after, idx, nw + 1, "append", FetchReport(env) \cup {"updated"})
    ELSE LET batch == run_batch_history(rows, idx, nw, t, env2)
         IN  [batch EXCEPT !.report = @ \cup FetchReport(env) \cup {"no_database"}]

\* run_incremental_update from the fetch on, for the last timestamp it has
\* read and the table as it is when the run writes.
IncrementalAfterRead(rows, idx, nw, t, env, env2, last_timestamp) ==
    LET start_date_fetch == FetchStart(last_timestamp, t)
        ohlcv_data       == fetch_ohlcv_data(start_date_fetch, t, env.ohlcv, env.cut)
        df_raw_new       == merge_all_data(ohlcv_data, env.oi, env.sp500)
    IN  IF df_raw_new = None
        THEN Outcome(rows, idx, nw, "none", FetchReport(env) \cup {"merge_empty"})
        ELSE IF FeaturesRaise(TheValue(df_raw_new))
        THEN Outcome(rows, idx, nw, "none", FetchReport(env) \cup {"features_error"})
        ELSE LET df_features_new == create_advanced_features(TheValue(df_raw_new))
             IN  IF IsEmpty(df_features_new)
                 THEN Outcome(rows, idx, nw, "none",
                              FetchReport(env) \cup {"features_empty"})
                 ELSE IncrementalSave(rows, idx, nw, t, env, env2, last_timestamp,
                                      df_features_new)

run_incremental_update(rows, idx, nw, t, env, env2) ==
    IncrementalAfterRead(rows, idx, nw, t, env, env2,
                         get_last_timestamp(rows, env.query))

\* What is recorded about a run, for the properties below.
\* `rebuilt` is the hour of the latest full rebuild while the table is
\* still as that rebuild left it, None otherwise.
\* `env2` is recorded only when the run switched to run_batch_history.
RunRecord(entry, t, rows, env, env2, out, previous) ==
    [entry |-> entry, at |-> t, before |-> rows,
     last |-> get_last_timestamp(rows, env.query),
     since |-> IF entry = "main_batch" THEN t - HistoryHours
               ELSE FetchStart(get_last_timestamp(rows, env.query), t),
     env |-> env,
     env2 |-> IF "no_database" \in out.report THEN env2 ELSE AllDelivered,
     write |-> out.write, report |-> out.report, clean |-> NoFault(env),
     rebuilt |-> IF out.write = "replace" THEN Some(t)
                 ELSE IF out.write = "append" THEN None
                 ELSE previous.rebuilt]

NoRun == [entry |-> "none", at |-> 0, before |-> {}, last |-> None, since |-> 0,
          env |-> AllDelivered, env2 |-> AllDelivered,
          write |-> "none", report |-> {}, clean |-> TRUE, rebuilt |-> None]

Forget(rec) ==
    [rec EXCEPT !.before = {}, !.last = None, !.since = 0, !.env = AllDelivered,
                !.env2 = AllDelivered, !.report = {}, !.clean = TRUE]

(***************************************************************************)
(* Collector actions                                                       *)
(***************************************************************************)
\* The jobs of the pipeline run one after the other unless `interleaved`.
Quiet == interleaved \/ \A r \in procs : run[r].pc = "idle"

\* The scheduler's hourly job: run_incremental_update(engine).
IncrementalUpdate ==
    /\ mainPc = "idle"
    /\ nWrites < MaxWrites
    /\ \E env \in Envs(faults) : \E env2 \in SecondEnvs(features, env, faults) :
         LET out == run_incremental_update(features, hasIndex, nWrites, now, env, env2)
         IN  /\ features' = out.features
             /\ hasIndex' = out.hasIndex
             /\ nWrites' = out.nWrites
             /\ lastRun' = RunRecord("incremental", now, features, env, env2, out, lastRun)
             /\ prevRun' = Forget(lastRun)
    /\ UNCHANGED <<jobs, calc, service, fetch, interleaved, now, ticks, faults, mainPc>>
    /\ UNCHANGED predictorVars

\* The script's entry point, first statement: run_batch_history(engine).
MainBatchHistory ==
    /\ mainPc = "idle"
    /\ nWrites + 1 < MaxWrites
    /\ \E env \in Envs(faults) :
         LET out == run_batch_history(features, hasIndex, nWrites, now, env)
         IN  /\ features' = out.features
             /\ hasIndex' = out.hasIndex
             /\ nWrites' = out.nWrites
             /\ lastRun' = RunRecord("main_batch", now, features, env, AllDelivered, out, lastRun)
             /\ prevRun' = Forget(lastRun)
    /\ mainPc' = "batch_done"
    /\ UNCHANGED <<jobs, calc, service, fetch, interleaved, now, ticks, faults>>
    /\ UNCHANGED predictorVars

\* The entry point, second statement: run_incremental_update(engine).
MainIncrementalUpdate ==
    /\ mainPc = "batch_done"
    /\ \E env \in Envs(faults) : \E env2 \in SecondEnvs(features, env, faults) :
         LET out == run_incremental_update(features, hasIndex, nWrites, now, env, env2)
         IN  /\ features' = out.features
             /\ hasIndex' = out.hasIndex
             /\ nWrites' = out.nWrites
             /\ lastRun' = RunRecord("main_incremental", now, features, env, env2, out, lastRun)
             /\ prevRun' = Forget(lastRun)
    /\ mainPc' = "idle"
    /\ UNCHANGED <<jobs, calc, service, fetch, interleaved, now, ticks, faults>>
    /\ UNCHANGED predictorVars

\* run_batch_history as the database sees it.  First transaction: to_sql
\* with if_exists='replace' drops the table, with its index, and creates it
\* with the new rows.
RebuildReplace ==
    /\ mainPc = "idle"
    /\ nWrites + 1 < MaxWrites
    /\ \E env \in Envs(faults) :
         LET out == run_batch_history(features, hasIndex, nWrites, now, env)
         IN  /\ features' = out.features
             /\ nWrites' = out.nWrites
             /\ hasIndex' = IF out.write = "replace" THEN FALSE ELSE hasIndex
             /\ mainPc' = IF out.write = "replace" THEN "index" ELSE "batch_done"
             /\ lastRun' = RunRecord("main_batch", now, features, env, AllDelivered,
                                     out, lastRun)
             /\ prevRun' = Forget(lastRun)
    /\ UNCHANGED <<jobs, calc, service, fetch, interleaved, now, ticks, faults>>
    /\ UNCHANGED predictorVars

\* Second transaction: CREATE UNIQUE INDEX IF NOT EXISTS idx_timestamp.
RebuildIndex ==
    /\ mainPc = "index"
    /\ hasIndex' = TRUE
    /\ mainPc' = "batch_done"
    /\ UNCHANGED <<jobs, calc, service, fetch, interleaved, now, ticks, faults, features, nWrites, lastRun, prevRun>>
    /\ UNCHANGED predictorVars

\* The second transaction fails (the connection is lost): the exception is
\* printed and run_batch_history returns.
RebuildStop ==
    /\ mainPc = "index"
    /\ lastRun' = [lastRun EXCEPT !.report = (@ \ {"batch_saved"}) \cup {"batch_error"}]
    /\ mainPc' = "batch_done"
    /\ UNCHANGED <<jobs, calc, service, fetch, interleaved, now, ticks, faults, features, hasIndex, nWrites, prevRun>>
    /\ UNCHANGED predictorVars

\* A request loop starts: for the rebuild's history or for the incremental
\* window.
FetchBegin ==
    /\ fetch.pc \in {"idle", "done"}
    /\ \E adapter \in Adapters :
       \E start \in {now - HistoryHours, FetchStart(None, now), FetchStart(Some(now - 1), now)} :
          fetch' = BeginFetch(adapter, start, now)
    /\ UNCHANGED <<jobs, calc, service, interleaved, now, ticks, faults>>
    /\ UNCHANGED collectorVars
    /\ UNCHANGED predictorVars

OhlcvRequest ==
    /\ fetch.pc = "request"
    /\ fetch.adapter = "ohlcv"
    /\ \E response \in OhlcvResponses : fetch' = OhlcvPass(fetch, now, response)
    /\ UNCHANGED <<jobs, calc, service, interleaved, now, ticks, faults>>
    /\ UNCHANGED collectorVars
    /\ UNCHANGED predictorVars

OiRequest ==
    /\ fetch.pc = "request"
    /\ fetch.adapter = "oi"
    /\ \E response \in OiResponses, nextPageCursor \in Cursors :
          fetch' = OiPass(fetch, response, nextPageCursor)
    /\ UNCHANGED <<jobs, calc, service, interleaved, now, ticks, faults>>
    /\ UNCHANGED collectorVars
    /\ UNCHANGED predictorVars

DbConnect ==
    /\ fetch.pc = "request"
    /\ fetch.adapter = "db"
    /\ \E connected \in BOOLEAN : fetch' = DbPass(fetch, connected)
    /\ UNCHANGED <<jobs, calc, service, interleaved, now, ticks, faults>>
    /\ UNCHANGED collectorVars
    /\ UNCHANGED predictorVars

\* Incremental runs that overlap.  A run reads the last timestamp and
\* fetches in one step and writes in a later one; other runs may read and
\* write in between.  A run that finds the table empty rebuilds it, and
\* that run is made alone: the write of a rebuild is exclusive.
Jobs == {"j1", "j2"}
IdleJob == [pc |-> "idle", last |-> None, at |-> 0, write |-> "none", report |-> {}]
NoJobs == [j \in {} |-> IdleJob]

Rebuilding(j) == jobs[j].pc = "fetched" /\ jobs[j].last = None

\* Lines 558-592: end_date, get_last_timestamp, the fetch.
JobRead(j) ==
    /\ jobs[j].pc \in {"idle", "done"}
    /\ nWrites < MaxWrites
    /\ \A k \in Jobs \ {j} : ~Rebuilding(k)
    /\ features = {} => \A k \in Jobs \ {j} : jobs[k].pc # "fetched"
    /\ jobs' = [jobs EXCEPT ![j] = [IdleJob EXCEPT !.pc = "fetched", !.at = now,
                                                   !.last = get_last_timestamp(features, TRUE)]]
    /\ UNCHANGED <<calc, service, fetch, interleaved, now, ticks, faults>>
    /\ UNCHANGED collectorVars
    /\ UNCHANGED predictorVars

\* Lines 594-638: the transform, the filter and the write, on the table as
\* it is now.
JobWrite(j) ==
    /\ jobs[j].pc = "fetched"
    /\ LET out == IncrementalAfterRead(features, hasIndex, nWrites, jobs[j].at,
                                       AllDelivered, AllDelivered, jobs[j].last)
       IN  /\ features' = out.features
           /\ hasIndex' = out.hasIndex
           /\ nWrites' = out.nWrites
           /\ jobs' = [jobs EXCEPT ![j].pc = "done", ![j].write = out.write,
                                   ![j].report = out.report]
    /\ UNCHANGED <<calc, service, fetch, interleaved, now, ticks, faults, lastRun, prevRun, mainPc>>
    /\ UNCHANGED predictorVars

\* The clock: the next hour begins, or the job was not run for GapJump
\* hours.  The exchange has a bar for every hour up to the current one.
Tick ==
    /\ mainPc = "idle"
    /\ Quiet
    /\ ticks < MaxTicks
    /\ \E dt \in TickSteps : now' = now + dt
    /\ ticks' = ticks + 1
    /\ UNCHANGED <<jobs, calc, service, fetch, interleaved, faults, features, hasIndex, nWrites, lastRun, prevRun, mainPc>>
    /\ UNCHANGED predictorVars

(***************************************************************************)
(* predictor.py: constants.  Real values are fixed-point integers in units *)
(* of 10^-8; NaN is the empty tuple, a finite value v is <<v>>.            *)
(***************************************************************************)
TARGET_HORIZONS == <<6, 12, 24>>
LSTM_TIME_STEPS == 48
Z_SCORE_95 == 196            \* 1.96, in hundredths
RUN_KEEP_HOURS == 48         \* cleanup_old_predictions(keep_hours=48)

MODELS == <<[name |-> "LinearRegression", type |-> "LR"],
            [name |-> "XGBoost", type |-> "XGB"],
            [name |-> "LSTM", type |-> "LSTM"]>>

NaN == << >>
Fin(v) == <<v>>
IsFinite(x) == x # NaN

(***************************************************************************)
(* create_advanced_features cell by cell.  A column is a tuple of cells,   *)
(* NaN or a value; prices are in hundredths.  A frame is the base series   *)
(* of n hourly bars with close, high and low moved by d from bar t on.     *)
(***************************************************************************)
MaxBars == 125
FrameLengths == {0, 1, 36, 50, ZSCORE_WINDOW - 1, ZSCORE_WINDOW, ZSCORE_WINDOW + 1,
                 110, 120, MaxBars}
ChangedRows == {1, 2, 35, 36, 50, 100, 101, 120}
Deltas == {-3000, 4000}

VOLATILITY_WINDOWS == {5, 14, 21}
MACD_FAST == 12
MACD_SLOW == 26
MACD_SIGNAL == 9
RSI_LENGTH == 14
ATR_LENGTH == 14

NoCalc == [pc |-> "none", n |-> 0, t |-> 0, d |-> 0, rows |-> {},
           at |-> << >>, base |-> << >>]

Abs(x) == IF x < 0 THEN -x ELSE x

\* A column given by a rule for its cells, as the tuple of the cells.
Column(cells) == cells \o << >>

Bar(i, t, d) ==
    LET close == 100000 + 1000 * ((7 * i) % 11) + (IF i >= t THEN d ELSE 0)
    IN  [Close |-> close,
         High |-> close + 500 + 100 * (i % 3),
         Low |-> close - 500 - 100 * (i % 4),
         Volume |-> 50 + ((i * i) % 13)]

Close(n, t, d) == Column([i \in 1..n |-> Fin(Bar(i, t, d).Close)])
High(n, t, d) == Column([i \in 1..n |-> Fin(Bar(i, t, d).High)])
Low(n, t, d) == Column([i \in 1..n |-> Fin(Bar(i, t, d).Low)])

\* Series.shift(1)
shift(x, n) == Column([i \in 1..n |-> IF i = 1 THEN NaN ELSE x[i - 1]])

\* Variant: the indicator is computed from the column itself.
SafeInput_Unshifted(x, n) == x

\* The series an indicator is computed from: the column one row back.
SafeInput(x, n) == shift(x, n)

\* Arithmetic of two columns, NaN where either is.
Minus(x, y, n) ==
    Column([i \in 1..n |-> IF IsFinite(x[i]) /\ IsFinite(y[i]) THEN Fin(x[i][1] - y[i][1])
                    ELSE NaN])

RECURSIVE SumCells(_, _, _)
SumCells(x, i, j) ==
    IF i > j THEN 0
    ELSE (IF IsFinite(x[i]) THEN x[i][1] ELSE 0) + SumCells(x, i + 1, j)

Observations(x, i, j) == Cardinality({k \in i..j : IsFinite(x[k])})

\* Series.ewm(adjust=False).mean() with weight num/den on the new value: NaN
\* before the first value, the previous mean where the cell is NaN.
RECURSIVE ewm(_, _, _, _, _, _)
ewm(x, n, num, den, i, acc) ==
    IF i > n \/ Len(acc) # i - 1 THEN acc
    ELSE LET prev == IF i = 1 THEN NaN ELSE acc[i - 1]
             cell == IF ~IsFinite(x[i]) THEN prev
                     ELSE IF ~IsFinite(prev) THEN x[i]
                     ELSE Fin((num * x[i][1] + (den - num) * prev[1]) \div den)
         IN  ewm(x, n, num, den, i + 1, Append(acc, cell))

\* pandas_ta ema of the series that starts at row first: the mean of its
\* first `length` cells stands at row first + length - 1, the rows before
\* are NaN, then ewm(span=length, adjust=False).
ema(x, n, length, first) ==
    LET seed == first + length - 1
        seeded == Column([i \in 1..n |->
                     IF i < seed THEN NaN
                     ELSE IF i = seed
                     THEN Fin(SumCells(x, first, seed) \div
                              Larger(Observations(x, first, seed), 1))
                     ELSE x[i]])
    IN  ewm(seeded, n, 2, length + 1, 1, << >>)

\* pandas_ta rma: ewm(alpha=1/length, min_periods=length, adjust=False).
rma(x, n, length) ==
    LET y == ewm(x, n, 1, length, 1, << >>)
    IN  Column([i \in 1..n |-> IF Observations(x, 1, i) >= length THEN y[i] ELSE NaN])

\* df.ta.macd(close='prev_Close', fast=12, slow=26, signal=9): the line, the
\* signal, the histogram.
macd(close, n) ==
    LET line == Minus(ema(close, n, MACD_FAST, 1), ema(close, n, MACD_SLOW, 1), n)
        signal == ema(line, n, MACD_SIGNAL, MACD_SLOW)
    IN  [MACD |-> line, MACDs |-> signal, MACDh |-> Minus(line, signal, n)]

\* df.ta.rsi(close='prev_Close', length=14), in percent; NaN for 0/0.
rsi(close, n) ==
    LET diff == Minus(close, shift(close, n), n)
        positive == Column([i \in 1..n |-> IF IsFinite(diff[i])
                                    THEN Fin(Larger(diff[i][1], 0)) ELSE NaN])
        negative == Column([i \in 1..n |-> IF IsFinite(diff[i])
                                    THEN Fin(Smaller(diff[i][1], 0)) ELSE NaN])
        positive_avg == rma(positive, n, RSI_LENGTH)
        negative_avg == rma(negative, n, RSI_LENGTH)
    IN  Column([i \in 1..n |->
           IF IsFinite(positive_avg[i]) /\ IsFinite(negative_avg[i])
              /\ positive_avg[i][1] + Abs(negative_avg[i][1]) # 0
           THEN Fin((100 * positive_avg[i][1]) \div
                    (positive_avg[i][1] + Abs(negative_avg[i][1])))
           ELSE NaN])

\* pandas_ta true_range: the largest of the three ranges that are not NaN,
\* NaN in the first row.
true_range(high, low, close, n) ==
    LET prev_close == shift(close, n)
        ranges(i) == {Abs(high[i][1] - low[i][1])} \cup
                     (IF IsFinite(prev_close[i])
                      THEN {Abs(high[i][1] - prev_close[i][1]),
                            Abs(low[i][1] - prev_close[i][1])}
                      ELSE {})
    IN  Column([i \in 1..n |-> IF i = 1 \/ ~IsFinite(high[i]) \/ ~IsFinite(low[i]) THEN NaN
                        ELSE Fin(SetMax(ranges(i)))])

\* df.ta.atr(high='prev_High', low='prev_Low', close='prev_Close', length=14)
atr(high, low, close, n) == rma(true_range(high, low, close, n), n, ATR_LENGTH)

\* Section 5 of create_advanced_features: the indicator columns, ATR in
\* units of 10^-4 of prev_Close.  An indicator that is handed fewer rows
\* than its length returns None and its column is not created.
Indicators(n, t, d) ==
    LET prev_Close == SafeInput(Close(n, t, d), n)
        prev_High == SafeInput(High(n, t, d), n)
        prev_Low == SafeInput(Low(n, t, d), n)
        macd_data == macd(prev_Close, n)
        atr_data == atr(prev_High, prev_Low, prev_Close, n)
    IN  [macd_created |-> n >= MACD_SLOW + MACD_SIGNAL - 1,
         rsi_created |-> n >= RSI_LENGTH,
         atr_created |-> n >= ATR_LENGTH,
         MACD_safe |-> macd_data.MACD,
         MACDs_safe |-> macd_data.MACDs,
         MACDh_safe |-> macd_data.MACDh,
         RSI_safe |-> rsi(prev_Close, n),
         ATR_safe_norm |-> Column([i \in 1..n |->
                              IF IsFinite(atr_data[i]) /\ IsFinite(prev_Close[i])
                              THEN Fin((10000 * atr_data[i][1]) \div prev_Close[i][1])
                              ELSE NaN])]

\* The indicator cells of row i.
IndicatorsAt(n, t, d, i) ==
    LET ind == Indicators(n, t, d)
    IN  IF i > n THEN << >>
        ELSE <<ind.MACD_safe[i], ind.MACDs_safe[i], ind.MACDh_safe[i],
               ind.RSI_safe[i], ind.ATR_safe_norm[i]>>

\* Which cells of the other feature columns hold a value.  Their values
\* play no part in which rows are kept: prices are positive and the volume
\* varies within every window, so no division is 0/0.
Raw(n) == [i \in 1..n |-> TRUE]
Shifted(known, n) == [i \in 1..n |-> i > 1 /\ known[i - 1]]
rolling(known, window, n) ==
    [i \in 1..n |-> i >= window /\ \A j \in (i - window + 1)..i : known[j]]

\* Sections 2 to 6: for every column of final_df, which of its cells hold a
\* value.
FeatureColumns(n, t, d) ==
    LET ind == Indicators(n, t, d)
        log_return == Shifted(Raw(n), n)
        created(flag, x) == [i \in 1..n |-> flag => IsFinite(x[i])]
    IN  {Raw(n), log_return, Shifted(Raw(n), n),
         rolling(Raw(n), ZSCORE_WINDOW, n),
         created(ind.macd_created, ind.MACD_safe),
         created(ind.macd_created, ind.MACDs_safe),
         created(ind.macd_created, ind.MACDh_safe),
         created(ind.rsi_created, ind.RSI_safe),
         created(ind.atr_created, ind.ATR_safe_norm)}
        \cup {rolling(log_return, window, n) : window \in VOLATILITY_WINDOWS}
        \cup {rolling(Raw(n), window, n) : window \in VOLATILITY_WINDOWS}

\* Variant: no row is dropped.
dropna_None(columns, n) == 1..n

\* final_df.dropna(): the rows without a NaN cell.
dropna(columns, n) == {i \in 1..n : \A column \in columns : column[i]}

\* DUMMY_SCALER_PARAMS (mean, scale) per horizon, in units of 10^-8.
ScalerMean(h) == CASE h = 6 -> 100 [] h = 12 -> 200 [] h = 24 -> 500 [] OTHER -> 0
ScalerScale(h) == CASE h = 6 -> 500000 [] h = 12 -> 800000 [] h = 24 -> 1200000
                    [] OTHER -> 100000000

\* StandardScaler.inverse_transform of a scaled model output.
InverseTransform(h, scaled) == scaled * ScalerScale(h) + ScalerMean(h)

\* f"{model_name_full}_log_return_{h}h"
ModelName(full, h) == <<full, "log_return", h>>

(***************************************************************************)
(* Bounds of the predictor's environment                                   *)
(***************************************************************************)
\* Files of the model directory; a scenario is the set of missing ones.
File(name, h) == <<name, h>>

MissingScenarios ==
    { {},
      {File("LinearRegression", 12)},
      {File("LR_X_scaler", 0)},
      {File("LSTM_X_scaler", 0)} }

ScaledOutputs == {-1, 2}       \* what a model's predict returns
SessionTZs == {0, 3}           \* TimeZone of the database session
KeepHoursArgs == {24, 48}      \* --keep-hours of cleanup_predictions.py
OldAges == {48, 49}            \* ages (hours) of the batches earlier runs stored
PredictorNows == {98, 145, 146}

\* model_errors.json: absent, or RMSE per backend name (units of 10^-8).
NoErrors == [n \in {} |-> 0]
ErrorFiles ==
    { NoErrors,
      [n \in {"LinearRegression", "LSTM"} |->
          IF n = "LinearRegression" THEN 300 ELSE 0] }

(***************************************************************************)
(* The predictions table                                                   *)
(***************************************************************************)
\* A naive datetime bound to a TIMESTAMP WITH TIME ZONE column is read in
\* the session's time zone; an aware (UTC) datetime is taken as it is.
NaiveToInstant(naive, tz) == naive - tz

Key(r) == <<r.time, r.model_name, r.target_hours>>

Row(time, model_name, target_hours, prediction, ci_low, ci_high) ==
    [time |-> time, model_name |-> model_name, target_hours |-> target_hours,
     prediction_log_return |-> prediction, ci_low |-> ci_low, ci_high |-> ci_high]

\* Variant: a plain INSERT into a table without the primary key.
Upsert_PlainInsert(table, row) == table \cup {row}

\* Variant: ON CONFLICT DO UPDATE SET prediction_log_return only.
Upsert_PredictionOnly(table, row) ==
    IF \E q \in table : Key(q) = Key(row)
    THEN {IF Key(q) = Key(row)
          THEN [q EXCEPT !.prediction_log_return = row.prediction_log_return]
          ELSE q : q \in table}
    ELSE table \cup {row}

\* INSERT ... ON CONFLICT (time, model_name, target_hours) DO UPDATE
Upsert(table, row) == {r \in table : Key(r) # Key(row)} \cup {row}

\* save_prediction
save_prediction(table, time, model_name, target_hours, prediction, ci_low, ci_high) ==
    Upsert(table, Row(time, model_name, target_hours, prediction, ci_low, ci_high))

\* Variant: only the oldest of the expired timestamps is deleted per sweep.
DeleteOlder_OldestOnly(table, cutoff) ==
    {r \in table : ~(r.time < cutoff /\ \A q \in table : r.time <= q.time)}

\* DELETE FROM predictions WHERE time < :cutoff_time
DeleteOlder(table, cutoff) == {r \in table : ~(r.time < cutoff)}

\* predictor.cleanup_old_predictions: the cutoff is an aware UTC datetime.
cleanup_old_predictions(table, t, keep_hours) ==
    LET cutoff_time == t - keep_hours
        count == Cardinality({r \in table : r.time < cutoff_time})
    IN  IF count = 0 THEN table ELSE DeleteOlder(table, cutoff_time)

\* cleanup_predictions.cleanup_old_predictions: the cutoff is a naive
\* datetime.utcnow(); nothing is deleted on a dry run or without consent.
script_cleanup_old_predictions(table, t, tz, keep_hours, dry_run, consent) ==
    LET cutoff_time == NaiveToInstant(t - keep_hours, tz)
        count == Cardinality({r \in table : r.time < cutoff_time})
    IN  IF count = 0 \/ dry_run \/ ~consent
        THEN table
        ELSE DeleteOlder(table, cutoff_time)

(***************************************************************************)
(* Inference                                                               *)
(***************************************************************************)
\* load_latest_data(53): the newest rows of the feature table; what the
\* predictor uses of them is their number and the newest timestamp.
LoadLimit == LSTM_TIME_STEPS + 5

load_latest_data(table) ==
    IF table = {} THEN [nrows |-> 0, last |-> 0]
    ELSE [nrows |-> Smaller(RowCount(table), LoadLimit),
          last |-> SetMax({b.hi : b \in table})]

\* load_model_and_predict for LR and XGB: [nan] when the model file or (LR)
\* the input scaler is missing, else the denormalised output.
PointPredict(model_type, full, h, missing, scaled) ==
    IF File(full, h) \in missing THEN NaN
    ELSE IF model_type = "LR" /\ File("LR_X_scaler", 0) \in missing THEN NaN
    ELSE Fin(InverseTransform(h, scaled))

\* load_model_and_predict for LSTM: [nan, nan, nan] without TensorFlow,
\* without LSTM.h5, with fewer than LSTM_TIME_STEPS rows or without the
\* input scaler; else one denormalised output per horizon.
LstmPredict(nrows, missing, scaled) ==
    IF \/ File("tensorflow", 0) \in missing
       \/ File("LSTM", 0) \in missing
       \/ nrows < LSTM_TIME_STEPS
       \/ File("LSTM_X_scaler", 0) \in missing
    THEN [i \in 1..Len(TARGET_HORIZONS) |-> NaN]
    ELSE [i \in 1..Len(TARGET_HORIZONS) |->
             Fin(InverseTransform(TARGET_HORIZONS[i], scaled))]

\* The files load_model_and_predict reads from the model directory, in
\* order: the model file and, for LR, the input scaler, each by its own
\* joblib.load on every call.
PointLoads(model_type, full, h, missing) ==
    IF File(full, h) \in missing THEN << >>
    ELSE IF model_type = "LR" /\ File("LR_X_scaler", 0) \notin missing
    THEN <<File(full, h), File("LR_X_scaler", 0)>>
    ELSE <<File(full, h)>>

LstmLoads(nrows, missing) ==
    IF File("tensorflow", 0) \in missing \/ File("LSTM", 0) \in missing THEN << >>
    ELSE IF nrows < LSTM_TIME_STEPS \/ File("LSTM_X_scaler", 0) \in missing
    THEN <<File("LSTM", 0)>>
    ELSE <<File("LSTM", 0), File("LSTM_X_scaler", 0)>>

\* Confidence interval: prediction -/+ Z_SCORE_95 * rmse; NaN stays NaN.
Rmse(errors, full) == IF full \in DOMAIN errors THEN errors[full] ELSE 0
CiMargin(rmse) == (Z_SCORE_95 * rmse) \div 100
\* Variant: the margin is added on the low side too.
CiLow_Plus(prediction, rmse) ==
    IF IsFinite(prediction) THEN Fin(prediction[1] + CiMargin(rmse)) ELSE NaN

CiLow(prediction, rmse) ==
    IF IsFinite(prediction) THEN Fin(prediction[1] - CiMargin(rmse)) ELSE NaN
CiHigh(prediction, rmse) ==
    IF IsFinite(prediction) THEN Fin(prediction[1] + CiMargin(rmse)) ELSE NaN

(***************************************************************************)
(* run_prediction, one process per invocation.  Its steps are the          *)
(* database transactions it makes: the sweep, the load, then one upsert    *)
(* per (backend, horizon) unit in the order of MODELS and TARGET_HORIZONS. *)
(***************************************************************************)
NumHorizons == Len(TARGET_HORIZONS)
LstmUnit == 2 * NumHorizons + 1          \* the single LSTM predict call
LastUnit == LstmUnit + NumHorizons       \* the last LSTM upsert

IdleRun == [pc |-> "idle", unit |-> 0, prediction_time |-> 0, nrows |-> 0,
            errors |-> NoErrors, missing |-> {}, scaled |-> 0,
            preds |-> [i \in 1..NumHorizons |-> NaN],
            loadedAt |-> "idle", indexed |-> TRUE, loaded |-> << >>]

UnitModel(u) == MODELS[((u - 1) \div NumHorizons) + 1]
UnitHorizon(u) == TARGET_HORIZONS[((u - 1) % NumHorizons) + 1]

\* Why load_model_and_predict yields NaN for a unit, "ok" when it does not.
PointCause(model_type, full, h, missing) ==
    IF File(full, h) \in missing THEN "artifact"
    ELSE IF model_type = "LR" /\ File("LR_X_scaler", 0) \in missing THEN "artifact"
    ELSE "ok"

LstmCause(nrows, missing) ==
    IF File("tensorflow", 0) \in missing THEN "tensorflow"
    ELSE IF File("LSTM", 0) \in missing THEN "artifact"
    ELSE IF nrows < LSTM_TIME_STEPS THEN "history"
    ELSE IF File("LSTM_X_scaler", 0) \in missing THEN "artifact"
    ELSE "ok"

\* What is recorded about a save_prediction call.
SaveRecord(table, row, full, errors, nrows, cause) ==
    [row |-> row, full |-> full, errors |-> errors, nrows |-> nrows, cause |-> cause,
     replaced |-> \E q \in table : Key(q) = Key(row) /\ q # row]

NoSave == [row |-> Row(0, ModelName("none", 0), 0, NaN, NaN, NaN), full |-> "none",
           errors |-> NoErrors, nrows |-> 0, cause |-> "none", replaced |-> FALSE]

\* What is recorded about a retention sweep.
\* A sweep is effective when it was allowed to delete (always, but for the
\* script on a dry run or without consent); it is a repeat when it follows
\* an effective sweep by the same program, hour and retention, no row written
\* in between.
SweepRecord(who, t, keep, effective, before, after, last) ==
    [who |-> who, at |-> t, keep |-> keep, effective |-> effective,
     after |-> after,
     repeat |-> last.effective /\ last.who = who /\ last.at = t
                   /\ last.keep = keep /\ last.after = before,
     deleted |-> Cardinality(before \ after),
     deletedBefore |-> last.deleted]

NoSweep == [who |-> "none", at |-> 0, keep |-> 0, effective |-> FALSE,
            after |-> {}, repeat |-> FALSE, deleted |-> 0, deletedBefore |-> 0]

\* One unit of run_prediction: confidence interval, then the upsert.
SaveUnit(r, full, h, prediction, cause) ==
    LET rmse == Rmse(run[r].errors, full)
        time == NaiveToInstant(run[r].prediction_time, sessionTZ)
        row  == Row(time, ModelName(full, h), h, prediction,
                    CiLow(prediction, rmse), CiHigh(prediction, rmse))
    IN  /\ predictions' = save_prediction(predictions, row.time, row.model_name,
                                          row.target_hours, row.prediction_log_return,
                                          row.ci_low, row.ci_high)
        /\ lastSaved' = SaveRecord(predictions, row, full, run[r].errors, run[r].nrows,
                                   cause)

\* Variant: the run goes on to the load without having swept.
RunSweep_Skipped(r) ==
    /\ run[r].pc = "idle"
    /\ run' = [run EXCEPT ![r].pc = "load"]
    /\ UNCHANGED <<jobs, calc, service, fetch, interleaved, now, ticks, faults, sessionTZ, predictions, procs, lastSaved, lastSweep>>
    /\ UNCHANGED collectorVars

\* ensure_prediction_table_exists(); cleanup_old_predictions(keep_hours=48)
RunSweep(r) ==
    /\ run[r].pc = "idle"
    /\ predictions' = cleanup_old_predictions(predictions, now, RUN_KEEP_HOURS)
    /\ lastSweep' = SweepRecord("predictor", now, RUN_KEEP_HOURS, TRUE,
                                predictions, predictions', lastSweep)
    /\ run' = [run EXCEPT ![r].pc = "load"]
    /\ UNCHANGED <<jobs, calc, service, fetch, interleaved, now, ticks, faults, sessionTZ, procs, lastSaved>>
    /\ UNCHANGED collectorVars

\* load_latest_data(53), prediction_time, load_model_errors().  The process
\* ends here when no feature row could be loaded.  The record keeps where
\* the collector's entry point stood and whether the unique index existed
\* when the rows were read.
RunLoad(r) ==
    /\ run[r].pc = "load"
    /\ LET X_latest_df == load_latest_data(features)
       IN  IF X_latest_df.nrows = 0
           THEN run' = [run EXCEPT ![r] = IdleRun]
           ELSE \E missing \in MissingScenarios, scaled \in ScaledOutputs,
                   errors \in ErrorFiles :
                  run' = [run EXCEPT ![r] =
                            [pc |-> "units", unit |-> 1,
                             prediction_time |-> X_latest_df.last,
                             nrows |-> X_latest_df.nrows,
                             errors |-> errors, missing |-> missing,
                             scaled |-> scaled,
                             preds |-> [i \in 1..NumHorizons |-> NaN],
                             loadedAt |-> mainPc, indexed |-> hasIndex,
                             loaded |-> << >>]]
    /\ UNCHANGED <<jobs, calc, service, fetch, interleaved, now, ticks, faults, sessionTZ, predictions, procs, lastSaved, lastSweep>>
    /\ UNCHANGED collectorVars

\* An LR or XGB unit: load_model_and_predict, then save_prediction.
RunPointUnit(r) ==
    /\ run[r].pc = "units"
    /\ run[r].unit < LstmUnit
    /\ LET m == UnitModel(run[r].unit)
           h == UnitHorizon(run[r].unit)
       IN  SaveUnit(r, m.name, h,
                    PointPredict(m.type, m.name, h, run[r].missing, run[r].scaled),
                    PointCause(m.type, m.name, h, run[r].missing))
    /\ run' = [run EXCEPT ![r].unit = @ + 1,
                          ![r].loaded = @ \o PointLoads(UnitModel(run[r].unit).type,
                                                        UnitModel(run[r].unit).name,
                                                        UnitHorizon(run[r].unit),
                                                        run[r].missing)]
    /\ UNCHANGED <<jobs, calc, service, fetch, interleaved, now, ticks, faults, sessionTZ, procs, lastSweep>>
    /\ UNCHANGED collectorVars

\* The LSTM call: one load_model_and_predict for all horizons.
RunLstmPredict(r) ==
    /\ run[r].pc = "units"
    /\ run[r].unit = LstmUnit
    /\ run' = [run EXCEPT ![r].unit = @ + 1,
                          ![r].preds = LstmPredict(run[r].nrows, run[r].missing,
                                                   run[r].scaled),
                          ![r].loaded = @ \o LstmLoads(run[r].nrows, run[r].missing)]
    /\ UNCHANGED <<jobs, calc, service, fetch, interleaved, now, ticks, faults, sessionTZ, predictions, procs, lastSaved, lastSweep>>
    /\ UNCHANGED collectorVars

\* One LSTM horizon: save_prediction of preds_denorm[i].
RunLstmSave(r) ==
    /\ run[r].pc = "units"
    /\ run[r].unit > LstmUnit
    /\ LET i == run[r].unit - LstmUnit
       IN  SaveUnit(r, MODELS[3].name, TARGET_HORIZONS[i], run[r].preds[i],
                    LstmCause(run[r].nrows, run[r].missing))
    /\ run' = [run EXCEPT ![r] = IF run[r].unit = LastUnit THEN IdleRun
                                 ELSE [@ EXCEPT !.unit = @ + 1]]
    /\ UNCHANGED <<jobs, calc, service, fetch, interleaved, now, ticks, faults, sessionTZ, procs, lastSweep>>
    /\ UNCHANGED collectorVars

\* A predict call of load_model_and_predict raises (it is outside every try
\* block) and run_prediction ends there, its later units not computed.
RunStop(r) ==
    /\ run[r].pc = "units"
    /\ run[r].unit <= LstmUnit
    /\ run' = [run EXCEPT ![r].pc = "stopped"]
    /\ UNCHANGED <<jobs, calc, service, fetch, interleaved, now, ticks, faults, sessionTZ, predictions, procs, lastSaved, lastSweep>>
    /\ UNCHANGED collectorVars

\* cleanup_predictions.py --keep-hours H [--dry-run], answered yes or no.
SweeperScript ==
    /\ Quiet
    /\ \E keep_hours \in KeepHoursArgs, dry_run \in BOOLEAN, consent \in BOOLEAN :
         /\ predictions' = script_cleanup_old_predictions(predictions, now, sessionTZ,
                                                          keep_hours, dry_run, consent)
         /\ lastSweep' = SweepRecord("script", now, keep_hours, ~dry_run /\ consent,
                                     predictions, predictions', lastSweep)
    /\ UNCHANGED <<jobs, calc, service, fetch, interleaved, now, ticks, faults, sessionTZ, run, procs, lastSaved>>
    /\ UNCHANGED collectorVars

(***************************************************************************)
(* Initial states and specifications                                       *)
(***************************************************************************)
\* The nine rows a complete run leaves for one prediction time.
UnitPrediction(u, nrows, missing, scaled) ==
    IF u < LstmUnit
    THEN PointPredict(UnitModel(u).type, UnitModel(u).name, UnitHorizon(u), missing, scaled)
    ELSE LstmPredict(nrows, missing, scaled)[u - (LstmUnit - 1)]

BatchRows(time, nrows, missing, scaled, errors) ==
    {LET full == UnitModel(u).name
         p == UnitPrediction(u, nrows, missing, scaled)
     IN  Row(time, ModelName(full, UnitHorizon(u)), UnitHorizon(u), p,
             CiLow(p, Rmse(errors, full)), CiHigh(p, Rmse(errors, full)))
       : u \in 1..(3 * NumHorizons)}

\* The collector starts on an empty database.
InitCollector ==
    /\ now \in InitNows
    /\ ticks = 0
    /\ faults = FALSE
    /\ interleaved = FALSE
    /\ features = {}
    /\ hasIndex = FALSE
    /\ nWrites = 0
    /\ lastRun = NoRun
    /\ prevRun = NoRun
    /\ mainPc = "idle"
    /\ sessionTZ = 0
    /\ predictions = {}
    /\ procs = {}
    /\ run = [r \in {} |-> IdleRun]
    /\ lastSaved = NoSave
    /\ lastSweep = NoSweep
    /\ fetch = NoFetch
    /\ service = NewService
    /\ calc = NoCalc
    /\ jobs = NoJobs

NextCollector ==
    \/ IncrementalUpdate
    \/ MainBatchHistory
    \/ MainIncrementalUpdate
    \/ Tick

SpecCollector == InitCollector /\ [][NextCollector]_vars

\* Reconciler runs on a database that starts empty, by two jobs: a job's
\* append-mode run may fall between two runs of the other job or overlap
\* with one.
InitAppend ==
    /\ now \in InitNows
    /\ ticks = MaxTicks - 2
    /\ faults = FALSE
    /\ interleaved = TRUE
    /\ features = {}
    /\ hasIndex = FALSE
    /\ nWrites = 0
    /\ lastRun = NoRun
    /\ prevRun = NoRun
    /\ mainPc = "idle"
    /\ sessionTZ = 0
    /\ predictions = {}
    /\ procs = {}
    /\ run = [r \in {} |-> IdleRun]
    /\ lastSaved = NoSave
    /\ lastSweep = NoSweep
    /\ fetch = NoFetch
    /\ service = NewService
    /\ calc = NoCalc
    /\ jobs = [j \in Jobs |-> IdleJob]

NextAppend ==
    \/ \E j \in Jobs : JobRead(j)
    \/ \E j \in Jobs : JobWrite(j)
    \/ Tick

SpecAppend == InitAppend /\ [][NextAppend]_vars

\* The collector on an empty database, in an environment where a source or
\* a database call may fail in any run.
InitFaults ==
    /\ now \in FaultNows
    /\ ticks = MaxTicks - 1
    /\ faults = TRUE
    /\ interleaved = FALSE
    /\ features = {}
    /\ hasIndex = FALSE
    /\ nWrites = 0
    /\ lastRun = NoRun
    /\ prevRun = NoRun
    /\ mainPc = "idle"
    /\ sessionTZ = 0
    /\ predictions = {}
    /\ procs = {}
    /\ run = [r \in {} |-> IdleRun]
    /\ lastSaved = NoSave
    /\ lastSweep = NoSweep
    /\ fetch = NoFetch
    /\ service = NewService
    /\ calc = NoCalc
    /\ jobs = NoJobs

NextFaults ==
    \/ IncrementalUpdate
    \/ MainBatchHistory
    \/ MainIncrementalUpdate
    \/ Tick

SpecFaults == InitFaults /\ [][NextFaults]_vars

\* The entry point of the collector, its rebuild seen as two transactions,
\* next to one run of the predictor, which has swept the empty predictions
\* table and is about to load; either may stop part-way, while the sources
\* deliver.  The feature table was built an hour ago.
InitSteps ==
    /\ now = StepsNow
    /\ ticks = MaxTicks
    /\ faults = FALSE
    /\ interleaved = TRUE
    /\ LET out == run_batch_history({}, FALSE, 0, now - 1, AllDelivered)
       IN  /\ features = out.features
           /\ hasIndex = out.hasIndex
           /\ nWrites = out.nWrites
    /\ lastRun = NoRun
    /\ prevRun = NoRun
    /\ mainPc = "idle"
    /\ sessionTZ = 0
    /\ predictions = {}
    /\ procs = {"p1"}
    /\ run = [r \in procs |-> [IdleRun EXCEPT !.pc = "load"]]
    /\ lastSaved = NoSave
    /\ lastSweep = NoSweep
    /\ fetch = NoFetch
    /\ service = NewService
    /\ calc = NoCalc
    /\ jobs = NoJobs

NextSteps ==
    \/ RebuildReplace
    \/ RebuildIndex
    \/ RebuildStop
    \/ MainIncrementalUpdate
    \/ \E r \in procs : RunLoad(r)
    \/ \E r \in procs : RunPointUnit(r)
    \/ \E r \in procs : RunLstmPredict(r)
    \/ \E r \in procs : RunLstmSave(r)
    \/ \E r \in procs : RunStop(r)

SpecSteps == InitSteps /\ [][NextSteps]_vars

\* Two invocations of run_prediction at the same hour, both about to load
\* the same feature table; their steps interleave in any order, one run
\* after the other included.
InitConcurrent ==
    /\ now = StepsNow
    /\ ticks = MaxTicks
    /\ faults = FALSE
    /\ interleaved = TRUE
    /\ LET out == run_batch_history({}, FALSE, 0, now, AllDelivered)
       IN  /\ features = out.features
           /\ hasIndex = out.hasIndex
           /\ nWrites = out.nWrites
    /\ lastRun = NoRun
    /\ prevRun = NoRun
    /\ mainPc = "idle"
    /\ sessionTZ = 0
    /\ predictions = {}
    /\ procs = {"p1", "p2"}
    /\ run = [r \in procs |-> [IdleRun EXCEPT !.pc = "load"]]
    /\ lastSaved = NoSave
    /\ lastSweep = NoSweep
    /\ fetch = NoFetch
    /\ service = NewService
    /\ calc = NoCalc
    /\ jobs = NoJobs

NextConcurrent ==
    \/ \E r \in procs : RunLoad(r)
    \/ \E r \in procs : RunPointUnit(r)
    \/ \E r \in procs : RunLstmPredict(r)
    \/ \E r \in procs : RunLstmSave(r)

SpecConcurrent == InitConcurrent /\ [][NextConcurrent]_vars

RunScriptCall(c) ==
    /\ service.call[c].pc = "idle"
    /\ \E script_name \in Scripts, valid \in BOOLEAN :
          service' = run_script_check(service, c, script_name, valid)
    /\ UNCHANGED <<jobs, calc, fetch, interleaved, now, ticks, faults>>
    /\ UNCHANGED collectorVars
    /\ UNCHANGED predictorVars

RunScriptSpawn(c) ==
    /\ service.call[c].pc = "spawn"
    /\ \E started \in BOOLEAN : service' = run_script_register(service, c, started)
    /\ UNCHANGED <<jobs, calc, fetch, interleaved, now, ticks, faults>>
    /\ UNCHANGED collectorVars
    /\ UNCHANGED predictorVars

\* The script ends by itself, with exit code 0 or 1.
ProcessExit(c) ==
    /\ service.process[c].st = "alive"
    /\ \E returncode \in {0, 1} :
          service' = [service EXCEPT !.process[c] = [st |-> "exited",
                                                     returncode |-> returncode]]
    /\ UNCHANGED <<jobs, calc, fetch, interleaved, now, ticks, faults>>
    /\ UNCHANGED collectorVars
    /\ UNCHANGED predictorVars

RunScriptTimeout(c) ==
    /\ service.call[c].pc = "communicate"
    /\ service.process[c].st = "alive"
    /\ service' = run_script_timeout(service, c)
    /\ UNCHANGED <<jobs, calc, fetch, interleaved, now, ticks, faults>>
    /\ UNCHANGED collectorVars
    /\ UNCHANGED predictorVars

RunScriptReturn(c) ==
    /\ service.call[c].pc \in {"communicate", "timed_out"}
    /\ service.process[c].st = "exited"
    /\ service' = run_script_result(service, c)
    /\ UNCHANGED <<jobs, calc, fetch, interleaved, now, ticks, faults>>
    /\ UNCHANGED collectorVars
    /\ UNCHANGED predictorVars

CancelCall(c) ==
    /\ service.call[c].pc = "idle"
    /\ \E script_name \in Scripts, lookupError \in BOOLEAN :
          service' = cancel_script_kill(service, c, script_name, lookupError)
    /\ UNCHANGED <<jobs, calc, fetch, interleaved, now, ticks, faults>>
    /\ UNCHANGED collectorVars
    /\ UNCHANGED predictorVars

CancelReturn(c) ==
    /\ service.call[c].pc = "wait"
    /\ service' = cancel_script_result(service, c)
    /\ UNCHANGED <<jobs, calc, fetch, interleaved, now, ticks, faults>>
    /\ UNCHANGED collectorVars
    /\ UNCHANGED predictorVars

\* create_advanced_features is applied to the frame.
Transform ==
    /\ calc.pc = "input"
    /\ calc' = [calc EXCEPT !.pc = "done",
                            !.rows = dropna(FeatureColumns(calc.n, calc.t, calc.d), calc.n),
                            !.at = IndicatorsAt(calc.n, calc.t, calc.d, calc.t),
                            !.base = IndicatorsAt(calc.n, calc.t, 0, calc.t)]
    /\ UNCHANGED <<jobs, service, fetch, interleaved, now, ticks, faults>>
    /\ UNCHANGED collectorVars
    /\ UNCHANGED predictorVars

\* create_advanced_features alone, on frames of the lengths of FrameLengths
\* that differ from the base series from one of ChangedRows on.
InitTransform ==
    /\ now = StepsNow
    /\ ticks = MaxTicks
    /\ faults = FALSE
    /\ interleaved = FALSE
    /\ features = {}
    /\ hasIndex = FALSE
    /\ nWrites = 0
    /\ lastRun = NoRun
    /\ prevRun = NoRun
    /\ mainPc = "idle"
    /\ sessionTZ = 0
    /\ predictions = {}
    /\ procs = {}
    /\ run = [r \in {} |-> IdleRun]
    /\ lastSaved = NoSave
    /\ lastSweep = NoSweep
    /\ fetch = NoFetch
    /\ service = NewService
    /\ \E n \in FrameLengths, t \in ChangedRows, d \in Deltas :
          /\ t <= Larger(n, 1)
          /\ calc = [NoCalc EXCEPT !.pc = "input", !.n = n, !.t = t, !.d = d]
    /\ jobs = NoJobs

NextTransform == Transform

SpecTransform == InitTransform /\ [][NextTransform]_vars

\* The script service alone, serving the requests of Calls in any order
\* and with any overlap the event loop allows.
InitService ==
    /\ now \in FaultNows
    /\ ticks = MaxTicks
    /\ faults = FALSE
    /\ interleaved = TRUE
    /\ features = {}
    /\ hasIndex = FALSE
    /\ nWrites = 0
    /\ lastRun = NoRun
    /\ prevRun = NoRun
    /\ mainPc = "idle"
    /\ sessionTZ = 0
    /\ predictions = {}
    /\ procs = {}
    /\ run = [r \in {} |-> IdleRun]
    /\ lastSaved = NoSave
    /\ lastSweep = NoSweep
    /\ fetch = NoFetch
    /\ service = NewService
    /\ calc = NoCalc
    /\ jobs = NoJobs

NextService ==
    \/ \E c \in Calls : RunScriptCall(c)
    \/ \E c \in Calls : RunScriptSpawn(c)
    \/ \E c \in Calls : ProcessExit(c)
    \/ \E c \in Calls : RunScriptTimeout(c)
    \/ \E c \in Calls : RunScriptReturn(c)
    \/ \E c \in Calls : CancelCall(c)
    \/ \E c \in Calls : CancelReturn(c)

SpecService == InitService /\ [][NextService]_vars

\* The request loops alone.  A loop that can make a pass makes it (the
\* process keeps running); what the other side answers is not constrained.
InitFetch ==
    /\ now \in FaultNows
    /\ ticks = MaxTicks
    /\ faults = TRUE
    /\ interleaved = FALSE
    /\ features = {}
    /\ hasIndex = FALSE
    /\ nWrites = 0
    /\ lastRun = NoRun
    /\ prevRun = NoRun
    /\ mainPc = "idle"
    /\ sessionTZ = 0
    /\ predictions = {}
    /\ procs = {}
    /\ run = [r \in {} |-> IdleRun]
    /\ lastSaved = NoSave
    /\ lastSweep = NoSweep
    /\ fetch = NoFetch
    /\ service = NewService
    /\ calc = NoCalc
    /\ jobs = NoJobs

NextFetch ==
    \/ FetchBegin
    \/ OhlcvRequest
    \/ OiRequest
    \/ DbConnect

SpecFetch == InitFetch /\ [][NextFetch]_vars /\ WF_vars(NextFetch)

\* The predictor starts after a full rebuild of the feature table, with
\* the batches earlier runs stored still in the predictions table.
InitPredictor ==
    /\ now \in PredictorNows
    /\ ticks = MaxTicks - 1
    /\ faults = FALSE
    /\ interleaved = FALSE
    /\ LET out == run_batch_history({}, FALSE, 0, now, AllDelivered)
       IN  /\ features = out.features
           /\ hasIndex = out.hasIndex
           /\ nWrites = out.nWrites
    /\ lastRun = NoRun
    /\ prevRun = NoRun
    /\ mainPc = "idle"
    /\ sessionTZ \in SessionTZs
    /\ \E ages \in {{}, OldAges} :
         predictions = UNION {BatchRows(now - a, LoadLimit, {}, 2, NoErrors) : a \in ages}
    /\ procs = {"p1"}
    /\ run = [r \in procs |-> IdleRun]
    /\ lastSaved = NoSave
    /\ lastSweep = NoSweep
    /\ fetch = NoFetch
    /\ service = NewService
    /\ calc = NoCalc
    /\ jobs = NoJobs

NextPredictor ==
    \/ \E r \in procs : RunSweep(r)
    \/ \E r \in procs : RunLoad(r)
    \/ \E r \in procs : RunPointUnit(r)
    \/ \E r \in procs : RunLstmPredict(r)
    \/ \E r \in procs : RunLstmSave(r)
    \/ SweeperScript
    \/ Tick

SpecPredictor == InitPredictor /\ [][NextPredictor]_vars

(***************************************************************************)
(* Properties                                                              *)
(***************************************************************************)
IncrementalEntries == {"incremental", "main_incremental"}

RowsWithKey(table, k) == {r \in table : Key(r) = k}

UniqueKeys == \A a, b \in predictions : Key(a) = Key(b) => a = b

\* C1: the predictions table never holds two rows with the same key
\* (time, model_name, target_hours), and right after every save_prediction
\* call the only row with the call's key is the row of that call (so a
\* second call with the same key and other values leaves its own values).
C1_UpsertKeepsOneRowPerKey ==
    /\ [](UniqueKeys)
    /\ [][lastSaved' # lastSaved =>
             RowsWithKey(predictions', Key(lastSaved'.row)) = {lastSaved'.row}]_vars

\* A key was saved a second time with other values, and its one row holds
\* the second call's values.
C1_Witness ==
    /\ lastSaved.replaced
    /\ RowsWithKey(predictions, Key(lastSaved.row)) = {lastSaved.row}

\* The key of a unit of the run of process r, and whether the run has
\* already processed that unit.
UnitKey(r, u) ==
    <<NaiveToInstant(run[r].prediction_time, sessionTZ),
      ModelName(UnitModel(u).name, UnitHorizon(u)), UnitHorizon(u)>>

Processed(r, u) ==
    /\ run[r].pc = "units"
    /\ IF u < LstmUnit THEN u < run[r].unit ELSE u + 1 < run[r].unit

UnitCause(r, u) ==
    IF u < LstmUnit
    THEN PointCause(UnitModel(u).type, UnitModel(u).name, UnitHorizon(u), run[r].missing)
    ELSE LstmCause(run[r].nrows, run[r].missing)

\* C2: when the feature table holds fewer than LSTM_TIME_STEPS rows, the
\* predictions table holds no row for an (LSTM, horizon) key of the
\* prediction time (the newest feature timestamp).
C2_NoLstmRowOnShortHistory ==
    LET X == load_latest_data(features)
    IN  (X.nrows > 0 /\ X.nrows < LSTM_TIME_STEPS) =>
           ~\E row \in predictions :
               /\ row.time = NaiveToInstant(X.last, sessionTZ)
               /\ row.model_name[1] = "LSTM"

\* C3: in a run, a unit whose model file or input scaler is missing leaves
\* no (NaN) row for its key, and every unit that could be computed has its
\* row, with the values of this run, in the table.
C3_MissingArtifactSkipsOnlyThatUnit ==
    \A r \in procs : \A u \in 1..(3 * NumHorizons) :
        Processed(r, u) =>
           /\ UnitCause(r, u) = "artifact" =>
                 ~\E row \in RowsWithKey(predictions, UnitKey(r, u)) :
                      ~IsFinite(row.prediction_log_return)
           /\ UnitCause(r, u) = "ok" =>
                 \E row \in RowsWithKey(predictions, UnitKey(r, u)) :
                      row.prediction_log_return =
                         UnitPrediction(u, run[r].nrows, run[r].missing, run[r].scaled)

\* C4: an incremental run that follows another incremental run within the
\* same hour (no new bar upstream) writes nothing: the feature table is the
\* table the first run left.
C4_SecondRunAppendsNothing ==
    (/\ lastRun.entry \in IncrementalEntries
     /\ prevRun.entry \in IncrementalEntries
     /\ prevRun.at = lastRun.at)
    => (lastRun.write = "none" /\ features = lastRun.before)

\* The first of the two runs wrote rows, the second found nothing to add.
C4_Witness ==
    /\ lastRun.entry = "incremental"
    /\ prevRun.entry = "incremental"
    /\ prevRun.at = lastRun.at
    /\ prevRun.write = "append"
    /\ lastRun.write = "none"
    /\ features = lastRun.before

\* C5: whenever the collector writes, it replaces the table exactly when
\* the table had no rows before the run, and appends otherwise.
C5_ReplaceOnlyWhenStoreEmpty ==
    lastRun.write # "none" => (lastRun.write = "replace" <=> lastRun.before = {})

\* C6: after an incremental run that read the last timestamp L, every row
\* that was stored before the run is still stored with the same values, and
\* every other row of the table is newer than L.
C6_AppendOnlyNewerRows ==
    (lastRun.entry \in IncrementalEntries /\ lastRun.last # None) =>
        /\ RowsOf(lastRun.before) \subseteq RowsOf(features)
        /\ \A r \in RowsOf(features) \ RowsOf(lastRun.before) :
              r.timestamp > TheValue(lastRun.last)

\* An incremental run appended rows although its frame also recomputed
\* rows that were stored already.
C6_Witness ==
    /\ lastRun.entry = "incremental"
    /\ lastRun.write = "append"
    /\ \E r \in RowsOf(lastRun.before) :
          r.timestamp >= FetchStart(lastRun.last, lastRun.at) + (ZSCORE_WINDOW - 1)
    /\ RowsOf(features) # RowsOf(lastRun.before)

SweepStep == SweeperScript \/ \E r \in procs : RunSweep(r)

\* C8: a sweep with retention H that is allowed to delete leaves exactly
\* the rows whose time is not older than now - H.
C8_SweepLeavesExactlyTheRecentRows ==
    [][(SweepStep /\ lastSweep'.effective) =>
          predictions' = {r \in predictions : r.time >= now - lastSweep'.keep}]_vars

\* C9: a sweep that repeats the one before it (same sweeper, hour and
\* retention, no row written in between) deletes nothing.
C9_RepeatedSweepDeletesNothing ==
    lastSweep.repeat => lastSweep.deleted = 0

\* The predictor's sweep deleted rows and was then repeated.
C9_Witness ==
    /\ lastSweep.who = "predictor"
    /\ lastSweep.repeat
    /\ lastSweep.deletedBefore > 0
    /\ lastSweep.deleted = 0

\* C10: a saved forecast with a finite value p and the RMSE r recorded for
\* its backend (0 when none is recorded) has ci_low = p - 1.96 r and
\* ci_high = p + 1.96 r, hence ci_high - ci_low = 2 * 1.96 * r, and
\* ci_low = ci_high = p when r = 0.
C10_ConfidenceInterval ==
    LET p == lastSaved.row.prediction_log_return
        r == IF lastSaved.full \in DOMAIN lastSaved.errors
             THEN lastSaved.errors[lastSaved.full] ELSE 0
    IN  (lastSaved # NoSave /\ IsFinite(p)) =>
           /\ IsFinite(lastSaved.row.ci_low) /\ IsFinite(lastSaved.row.ci_high)
           /\ 100 * (p[1] - lastSaved.row.ci_low[1]) = 196 * r
           /\ 100 * (lastSaved.row.ci_high[1] - p[1]) = 196 * r
           /\ 100 * (lastSaved.row.ci_high[1] - lastSaved.row.ci_low[1]) = 2 * 196 * r
           /\ (r = 0 => lastSaved.row.ci_low = p /\ lastSaved.row.ci_high = p)

\* A finite forecast of a backend with a positive recorded RMSE was saved.
C10_Witness ==
    /\ lastSaved # NoSave
    /\ IsFinite(lastSaved.row.prediction_log_return)
    /\ lastSaved.full \in DOMAIN lastSaved.errors
    /\ lastSaved.errors[lastSaved.full] > 0
    /\ lastSaved.row \in predictions


\* C14: the fetch start of an incremental run is the later of (last stored
\* timestamp - 200 hours) and (current hour - 205 hours); it is the latter
\* when nothing is stored; and the 200 hours cover the widest rolling window.
C14_FetchStartIsTheLaterBound ==
    /\ BARS_TO_FETCH_FOR_UPDATE >= ZSCORE_WINDOW
    /\ lastRun.entry \in IncrementalEntries =>
          lastRun.since =
             IF lastRun.last # None
             THEN Larger(TheValue(lastRun.last) - 200, lastRun.at - 205)
             ELSE lastRun.at - 205

\* An incremental run shortly after the last stored bar: the fetch starts
\* 200 hours before that bar, later than 205 hours before the current hour.
C14_Witness ==
    /\ lastRun.entry = "incremental"
    /\ lastRun.last # None
    /\ lastRun.since = TheValue(lastRun.last) - 200
    /\ lastRun.since > lastRun.at - 205
    /\ lastRun.write = "append"

(***************************************************************************)
(* Properties of a collection in which a source or the database fails      *)
(***************************************************************************)
\* The environment of the run_batch_history call of a recorded run, if the
\* run made one.
BatchEnvOf(rec) ==
    IF rec.entry = "main_batch" THEN Some(rec.env)
    ELSE IF "no_database" \in rec.report THEN Some(rec.env2)
    ELSE None

\* The kind of write the recorded run would have made with every source
\* and the database answering.
CleanWrite(rec) ==
    IF rec.entry = "main_batch"
    THEN run_batch_history(rec.before, TRUE, 0, rec.at, AllDelivered).write
    ELSE run_incremental_update(rec.before, TRUE, 0, rec.at, AllDelivered,
                                AllDelivered).write

\* The feature transform of a collection that starts at `since` yields a
\* frame without rows.
TransformEmpty(since, t, env) ==
    LET df_raw == merge_all_data(fetch_ohlcv_data(since, t, env.ohlcv, env.cut),
                                 env.oi, env.sp500)
    IN  /\ df_raw # None
        /\ ~FeaturesRaise(TheValue(df_raw))
        /\ IsEmpty(create_advanced_features(TheValue(df_raw)))

\* C11: a run in which the open-interest source or the cross-asset source
\* returns no data, everything else answering, writes what the same run
\* writes when all three sources deliver.
C11_MissingAuxiliarySourceStillWrites ==
    (/\ lastRun.entry # "none"
     /\ lastRun.env \in {[AllDelivered EXCEPT !.oi = FALSE],
                         [AllDelivered EXCEPT !.sp500 = FALSE]}
     /\ lastRun.env2 = AllDelivered)
    => lastRun.write = CleanWrite(lastRun)

\* C12: when the OHLCV source returns no rows to a collection (the run's
\* own, or the one of the rebuild it switched to), the run reports the empty
\* merge and writes nothing: the table is the table before the run.
C12_NoOhlcvRowsWritesNothing ==
    (\/ (lastRun.entry # "none" /\ ~lastRun.env.ohlcv)
     \/ (BatchEnvOf(lastRun) # None /\ ~TheValue(BatchEnvOf(lastRun)).ohlcv))
    => /\ lastRun.write = "none"
       /\ features = lastRun.before
       /\ "merge_empty" \in lastRun.report
       /\ lastRun.report \cap {"updated", "batch_saved"} = {}

\* The OHLCV source returned nothing to a run that would else have written.
C12_Witness ==
    /\ lastRun.entry \in IncrementalEntries
    /\ ~lastRun.env.ohlcv
    /\ lastRun.before # {}
    /\ CleanWrite(lastRun) = "append"
    /\ features = lastRun.before

\* C13: when the feature transform of a run yields no rows, in the
\* incremental path or in the rebuild, the run writes nothing and every row
\* stored before it is still stored.
C13_EmptyTransformWritesNothing ==
    (\/ (/\ lastRun.entry \in IncrementalEntries
         /\ TransformEmpty(lastRun.since, lastRun.at, lastRun.env))
     \/ (/\ BatchEnvOf(lastRun) # None
         /\ TransformEmpty(lastRun.at - HistoryHours, lastRun.at,
                           TheValue(BatchEnvOf(lastRun)))))
    => /\ lastRun.write = "none"
       /\ RowsOf(lastRun.before) \subseteq RowsOf(features)

\* C19: when a request of the OHLCV adapter fails after some bars were
\* fetched, the run writes nothing.
C19_TransportFailureWritesNothing ==
    (\/ (lastRun.entry # "none" /\ lastRun.env.cut > 0)
     \/ (BatchEnvOf(lastRun) # None /\ TheValue(BatchEnvOf(lastRun)).cut > 0))
    => (lastRun.write = "none" /\ features = lastRun.before)

\* C20: a run whose write to the feature table failed does not report a
\* successful update.
C20_FailedWriteIsNotReportedAsSuccess ==
    (lastRun.report \cap {"write_error", "batch_error"} # {})
    => lastRun.report \cap {"updated", "batch_saved"} = {}


(***************************************************************************)
(* Properties of steps that stop part-way or overlap                       *)
(***************************************************************************)
\* The rows of the predictions table that carry the prediction time of run r.
RowsOfRun(r) ==
    {q \in predictions : q.time = NaiveToInstant(run[r].prediction_time, sessionTZ)}

\* C15: a step that stops part-way persists none of its rows: after
\* run_prediction stopped, the predictions table holds no row of that run,
\* and after a rebuild ended with an error the feature table, index
\* included, is as it was before the rebuild.
C15_StoppedStepPersistsNothing ==
    /\ \A r \in procs : run[r].pc = "stopped" => RowsOfRun(r) = {}
    /\ (lastRun.entry = "main_batch" /\ mainPc = "batch_done"
          /\ "batch_error" \in lastRun.report)
       => (features = lastRun.before /\ hasIndex)

\* C17: a reader that loaded the feature table after a rebuild had replaced
\* it found the unique index in place.
C17_ReaderFindsIndexOnNewContents ==
    \A r \in procs :
       (run[r].pc = "units" /\ run[r].loadedAt = "index") => run[r].indexed


\* The row the run of process r saves for unit u.
UnitRow(r, u) ==
    LET full == UnitModel(u).name
        pred == UnitPrediction(u, run[r].nrows, run[r].missing, run[r].scaled)
        rmse == Rmse(run[r].errors, full)
    IN  Row(UnitKey(r, u)[1], ModelName(full, UnitHorizon(u)), UnitHorizon(u),
            pred, CiLow(pred, rmse), CiHigh(pred, rmse))

\* C16: with two runs for the same prediction time, in every interleaving
\* of their upserts no key is duplicated, a key both runs have saved has
\* its one row holding the values of one of the two runs, and when both
\* runs are over the table holds one row for each of the nine keys.
C16_ConcurrentRunsKeepOneRowPerKey ==
    /\ UniqueKeys
    /\ \A u \in 1..(3 * NumHorizons) :
          (\A r \in procs : Processed(r, u)) =>
             \E r \in procs : RowsWithKey(predictions, UnitKey(r, u)) = {UnitRow(r, u)}
    /\ ((\A r \in procs : run[r].pc = "idle") /\ lastSaved # NoSave) =>
          Cardinality(predictions) = 3 * NumHorizons

\* Both runs have saved a unit with different values, and the one row of
\* its key holds the values of the run that saved first or of the other.
C16_Witness ==
    \E u \in 1..(3 * NumHorizons) :
       /\ \A r \in procs : Processed(r, u)
       /\ UnitRow("p1", u) # UnitRow("p2", u)
       /\ UnitKey("p1", u) = UnitKey("p2", u)
       /\ RowsWithKey(predictions, UnitKey("p1", u)) = {UnitRow("p2", u)}
       /\ lastSaved.replaced


(***************************************************************************)
(* Termination of the request loops                                        *)
(***************************************************************************)
\* C18: every request loop that runs comes to its end, whatever the
\* responses are.
C18_EveryRequestLoopTerminates ==
    (fetch.pc = "request") ~> (fetch.pc = "done")


(***************************************************************************)
(* Gaps, and a failing read of the last timestamp                          *)
(***************************************************************************)
\* C29: after an incremental run that appended rows, all sources having
\* delivered every bar, each hour after the previously newest stored
\* timestamp up to the newest stored timestamp has a feature row.
C29_AppendLeavesNoGap ==
    (/\ lastRun.entry \in IncrementalEntries
     /\ lastRun.clean
     /\ lastRun.write = "append"
     /\ lastRun.last # None) =>
        \A t \in (TheValue(lastRun.last) + 1)..SetMax(Timestamps(features)) :
            t \in Timestamps(features)

\* C30: an incremental run whose read of the last timestamp failed, on a
\* table with rows, replaces nothing: every row stored before it is still
\* stored.
C30_FailedReadKeepsStoredRows ==
    (/\ lastRun.entry \in IncrementalEntries
     /\ ~lastRun.env.query
     /\ lastRun.before # {}) =>
        /\ lastRun.write # "replace"
        /\ RowsOf(lastRun.before) \subseteq RowsOf(features)


(***************************************************************************)
(* Order of the steps of a prediction cycle, artifact loads, failing units *)
(***************************************************************************)
\* C24: a run reaches its load only by its sweep, which leaves no row older
\* than now - 48 h; it reaches its units only from the load; and a forecast
\* is upserted only by a run that is at its units.
C24_SweepEndsBeforeForecasts ==
    [][/\ \A r \in procs :
            /\ (run'[r].pc = "load" /\ run[r].pc # "load") =>
                  /\ run[r].pc = "idle"
                  /\ lastSweep'.who = "predictor" /\ lastSweep'.at = now
                  /\ \A q \in predictions' : q.time >= now - RUN_KEEP_HOURS
            /\ (run'[r].pc = "units" /\ run[r].pc # "units") => run[r].pc = "load"
       /\ lastSaved' # lastSaved => \E r \in procs : run[r].pc = "units"]_vars

\* A run whose sweep deleted rows has upserted a forecast.
C24_Witness ==
    /\ lastSweep.who = "predictor"
    /\ lastSweep.deleted > 0
    /\ \E r \in procs : run[r].pc = "units" /\ run[r].unit > 1
    /\ lastSaved # NoSave

\* C25: within one process no file of the model directory (model, input
\* scaler) is loaded more than once.
C25_ArtifactLoadedOncePerProcess ==
    \A r \in procs : \A i, j \in DOMAIN run[r].loaded :
        run[r].loaded[i] = run[r].loaded[j] => i = j

\* C28: a finite forecast stored for a key is not replaced by a NaN value.
C28_FiniteForecastNotReplacedByNaN ==
    [][\A q \in predictions :
          IsFinite(q.prediction_log_return) =>
             \A n \in predictions' :
                Key(n) = Key(q) => IsFinite(n.prediction_log_return)]_vars


(***************************************************************************)
(* The script service: one process per script, the status after a cancel   *)
(***************************************************************************)
\* The subprocesses of a script that are running.
AliveProcesses(script_name) ==
    {c \in Calls : /\ service.call[c].script = script_name
                   /\ service.process[c].st = "alive"}

\* C26: at no time are two subprocesses of the same script running, and a
\* run_script call that returns 'running' has started no process.
C26_OneProcessPerScript ==
    /\ \A script_name \in Scripts : Cardinality(AliveProcesses(script_name)) <= 1
    /\ \A c \in Calls :
          service.call[c].result = "running" => service.process[c].st = "unborn"

\* cancel_script has killed the running process of the script and returned
\* success, and the status is 'cancelled'.
Cancelled(script_name) ==
    /\ service.script_status[script_name] = "cancelled"
    /\ \E c \in Calls : /\ service.call[c].op = "cancel_script"
                        /\ service.call[c].script = script_name
                        /\ service.call[c].killed
                        /\ service.call[c].result = "success"

\* C27: when cancel_script returns success the status is 'cancelled' and the
\* script is not listed as running; from then on the status changes only by
\* a run_script call that starts the script again.
C27_CancelledStatusStays ==
    [][\A script_name \in Scripts :
          /\ \A c \in Calls :
                (/\ service'.call[c].result = "success"
                 /\ service.call[c].result # "success"
                 /\ service'.call[c].script = script_name) =>
                    /\ service'.script_status[script_name] = "cancelled"
                    /\ ~is_running(service', script_name)
          /\ (Cancelled(script_name)
              /\ service'.script_status[script_name] # "cancelled") =>
                 \E c \in Calls : /\ service.call[c].pc = "idle"
                                  /\ service'.call[c].pc = "spawn"
                                  /\ service'.call[c].script = script_name]_vars


C22_IndicatorsReadOnlyEarlierBars ==
    calc.pc = "done" => calc.at = calc.base

\* The two frames differ at bar t, every indicator of row t has a value,
\* and the indicators of the next row are not the same for both.
C22_Witness ==
    /\ calc.pc = "done"
    /\ calc.t < calc.n
    /\ Bar(calc.t, calc.t, calc.d) # Bar(calc.t, calc.t, 0)
    /\ \A k \in DOMAIN calc.at : IsFinite(calc.at[k])
    /\ IndicatorsAt(calc.n, calc.t, calc.d, calc.t + 1)
         # IndicatorsAt(calc.n, calc.t, 0, calc.t + 1)


(***************************************************************************)
(* Append-mode writes of overlapping incremental runs                      *)
(***************************************************************************)
NoDuplicateTimestamp(table) ==
    \A a, b \in table : a # b => ~Overlap(a, b)

====
